---- MODULE Spec2Model ----
(***************************************************************************)
(* Model of railNL: Station / Connection registration sets, the Route      *)
(* station and connection sequences with their append / insert / pop /     *)
(* empty operations, and the HillClimber accept / reject loop.             *)
(*                                                                         *)
(* Python lists are modelled as sequences; list indices in operator        *)
(* arguments are the 0-based Python indices, element i of a Python list is *)
(* element i + 1 of the sequence.                                          *)
(***************************************************************************)
EXTENDS Integers, Sequences, FiniteSets, TLC

(***************************************************************************)
(* Bounds                                                                  *)
(***************************************************************************)
\* longest station sequence a route is grown to by the Route operations
MaxStations == 3

\* number of HillClimber iterations explored (run(iterations))
MaxIter == 2
\* the caps tried are 0, 10, ..., 10 * MaxCap
MaxCap == 25
\* the largest totalConnections tried
MaxTotal == 10
\* the route ids registered directly on a node are 0..MaxRouteID
MaxRouteID == 1

(***************************************************************************)
(* Station and Connection state read by the Route operations and queries   *)
(***************************************************************************)
VARIABLES
    connDuration,       \* Connection._duration of every connection node
    stationConnections  \* Station._connections of every station node

(***************************************************************************)
(* The rail graph: four stations, a triangle A-B-C and a pendant D on B.   *)
(***************************************************************************)
StationNames == {"A", "B", "C", "D"}

\* Connection nodes by uid: the two connected stations and the duration
ConnectionNodes ==
    [c \in 1..4 |->
        CASE c = 1 -> [stations |-> {"A", "B"}, duration |-> 60]
          [] c = 2 -> [stations |-> {"B", "C"}, duration |-> 70]
          [] c = 3 -> [stations |-> {"A", "C"}, duration |-> 80]
          [] c = 4 -> [stations |-> {"B", "D"}, duration |-> 50]]

ConnectionIDs == DOMAIN ConnectionNodes

\* Python None in a connection slot
None == 0

\* Station._connections of every station: connected station name ->
\* connection node, as Station.addConnection filled it for both stations
\* of every connection
StationConnections ==
    [name \in StationNames |->
        LET linked == {c \in ConnectionIDs : name \in ConnectionNodes[c].stations}
            other(c) == CHOOSE o \in ConnectionNodes[c].stations : o # name
        IN  [o \in {other(c) : c \in linked} |->
                CHOOSE c \in linked : ConnectionNodes[c].stations = {name, o}]]

\* Station.hasConnection
hasConnection(name, stationName) == stationName \in DOMAIN stationConnections[name]

\* Station.getConnection
getConnection(name, stationName) == stationConnections[name][stationName]

\* the durations the connection nodes were constructed with
NetworkDurations == [c \in ConnectionIDs |-> ConnectionNodes[c].duration]

\* Connection.duration
connectionDuration(c) == connDuration[c]

(***************************************************************************)
(* Python list primitives                                                  *)
(***************************************************************************)
Range(s) == {s[i] : i \in DOMAIN s}

\* list.insert(i, x): a negative i counts from the end, out of range clamps
ListInsert(s, i, x) ==
    LET n == Len(s)
        j == IF i < 0 THEN (IF i + n < 0 THEN 0 ELSE i + n)
                      ELSE (IF i > n THEN n ELSE i)
    IN  SubSeq(s, 1, j) \o <<x>> \o SubSeq(s, j + 1, n)

\* list.pop(i) for 0 <= i < len: the list without element i
ListPop(s, i) == SubSeq(s, 1, i) \o SubSeq(s, i + 2, Len(s))

(***************************************************************************)
(* Network state.  A network value is a record                             *)
(*   routes      : route id -> [stations, connections]                     *)
(*   stationReg  : station name -> Station._routes                         *)
(*   connReg     : connection uid -> Connection._routes                    *)
(*   raised      : "none", or the exception that left the call             *)
(***************************************************************************)
NoRegistrations ==
    [routes     |-> << >>,
     stationReg |-> [s \in StationNames |-> {}],
     connReg    |-> [c \in ConnectionIDs |-> {}],
     raised     |-> "none"]

nStations(net, rid) == Len(net.routes[rid].stations)

length(net, rid) == Len(net.routes[rid].connections)

\* Station.addRoute: set.add
StationAddRoute(net, name, rid) ==
    [net EXCEPT !.stationReg[name] = @ \cup {rid}]

\* removeRoute as a bare set.remove: KeyError for an id that is not there
StationRemoveRoute_BareRemove(net, name, rid) ==
    IF rid \in net.stationReg[name]
    THEN [net EXCEPT !.stationReg[name] = @ \ {rid}]
    ELSE [net EXCEPT !.raised = "KeyError"]

\* Station.removeRoute: remove when present
StationRemoveRoute(net, name, rid) ==
    [net EXCEPT !.stationReg[name] = IF rid \in @ THEN @ \ {rid} ELSE @]

\* Connection.addRoute: set.add
ConnectionAddRoute(net, c, rid) ==
    [net EXCEPT !.connReg[c] = @ \cup {rid}]

\* Connection.removeRoute: remove when present
ConnectionRemoveRoute(net, c, rid) ==
    [net EXCEPT !.connReg[c] = IF rid \in @ THEN @ \ {rid} ELSE @]

\* Route.__init__: a route holding its root station, registered on it
NewRoute(net, rid, rootStation) ==
    StationAddRoute(
        [net EXCEPT !.routes = [r \in (DOMAIN @) \cup {rid} |->
            IF r = rid THEN [stations |-> <<rootStation>>, connections |-> << >>]
                       ELSE @[r]]],
        rootStation, rid)

\* Route._findConnection
_findConnection(station1, station2) ==
    IF ~hasConnection(station1, station2) THEN None
    ELSE getConnection(station1, station2)

\* _insertConnection without the registration on the connection found
_insertConnection_NoAddRoute(net, rid, stationIndex, connectionIndex) ==
    LET st         == net.routes[rid].stations
        stationA   == st[stationIndex + 1]
        stationB   == IF stationIndex = 0 THEN st[stationIndex + 2]
                                          ELSE st[stationIndex]
        connection == _findConnection(stationA, stationB)
    IN  [net EXCEPT !.routes[rid].connections =
                        ListInsert(@, connectionIndex, connection)]

\* Route._insertConnection
_insertConnection(net, rid, stationIndex, connectionIndex) ==
    LET st         == net.routes[rid].stations
        stationA   == st[stationIndex + 1]
        stationB   == IF stationIndex = 0 THEN st[stationIndex + 2]
                                          ELSE st[stationIndex]
        connection == _findConnection(stationA, stationB)
        net1       == IF connection # None
                      THEN ConnectionAddRoute(net, connection, rid) ELSE net
    IN  [net1 EXCEPT !.routes[rid].connections =
                        ListInsert(@, connectionIndex, connection)]

\* _replaceConnection that leaves the old connection in the slot
_replaceConnection_KeepOld(net, rid, stationIndex, connectionIndex) == net

\* Route._replaceConnection.  The unregistration is applied to the slot
\* after it was overwritten, i.e. to the new connection; on a new slot of
\* None that is an attribute access on None.
_replaceConnection(net, rid, stationIndex, connectionIndex) ==
    LET st            == net.routes[rid].stations
        oldConnection == net.routes[rid].connections[connectionIndex + 1]
        newConnection == _findConnection(st[stationIndex + 1], st[stationIndex + 2])
        net1          == [net EXCEPT !.routes[rid].connections[connectionIndex + 1] =
                                        newConnection]
        slot          == net1.routes[rid].connections[connectionIndex + 1]
    IN  IF oldConnection # None /\ oldConnection \notin Range(net1.routes[rid].connections)
        THEN IF slot = None
             THEN [net1 EXCEPT !.raised = "AttributeError"]
             ELSE ConnectionRemoveRoute(net1, slot, rid)
        ELSE net1

\* Route.insertStation
insertStation(net, rid, stationIndex, station) ==
    LET net1 == StationAddRoute(
                    [net EXCEPT !.routes[rid].stations =
                                    ListInsert(@, stationIndex, station)],
                    station, rid)
        n    == nStations(net1, rid)
        idx  == IF stationIndex < 0 THEN stationIndex + n ELSE stationIndex
        cidx == IF idx = 0 THEN 0 ELSE idx - 1
        net2 == _insertConnection(net1, rid, idx, cidx)
    IN  IF n = 1 THEN net1
        ELSE IF idx < n - 1 /\ idx # 0
             THEN _replaceConnection(net2, rid, idx, idx)
             ELSE net2

\* Route.appendStation
appendStation(net, rid, station) ==
    insertStation(net, rid, nStations(net, rid), station)

\* _removeConnection that unregisters also when the connection still occurs
_removeConnection_NoMultiplicity(net, rid, connectionIndex) ==
    LET connection == net.routes[rid].connections[connectionIndex + 1]
        net1       == [net EXCEPT !.routes[rid].connections =
                                     ListPop(@, connectionIndex)]
    IN  IF connection # None
        THEN ConnectionRemoveRoute(net1, connection, rid)
        ELSE net1

\* Route._removeConnection
_removeConnection(net, rid, connectionIndex) ==
    LET connection == net.routes[rid].connections[connectionIndex + 1]
        net1       == [net EXCEPT !.routes[rid].connections =
                                     ListPop(@, connectionIndex)]
    IN  IF connection # None /\ connection \notin Range(net1.routes[rid].connections)
        THEN ConnectionRemoveRoute(net1, connection, rid)
        ELSE net1

\* _removeConnections with elif for the second if: one side only
_removeConnections_OneSide(net, rid, stationIndex) ==
    LET net1 == IF stationIndex < nStations(net, rid)
                THEN _removeConnection(net, rid, stationIndex)
                ELSE IF stationIndex > 0
                     THEN _removeConnection(net, rid, stationIndex - 1) ELSE net
    IN  IF length(net, rid) = 0 THEN net ELSE net1

\* Route._removeConnections
_removeConnections(net, rid, stationIndex) ==
    LET net1 == IF stationIndex < nStations(net, rid)
                THEN _removeConnection(net, rid, stationIndex) ELSE net
        net2 == IF stationIndex > 0
                THEN _removeConnection(net1, rid, stationIndex - 1) ELSE net1
    IN  IF length(net, rid) = 0 THEN net ELSE net2

\* popStation that unregisters the station also when it still occurs
popStation_NoMultiplicity(net, rid, stationIndex) ==
    LET idx     == IF stationIndex < 0 THEN stationIndex + nStations(net, rid)
                                       ELSE stationIndex
        station == net.routes[rid].stations[idx + 1]
        net1    == [net EXCEPT !.routes[rid].stations = ListPop(@, idx)]
        net2    == StationRemoveRoute(net1, station, rid)
        net3    == _removeConnections(net2, rid, idx)
    IN  IF idx \notin {0, nStations(net3, rid)} /\ nStations(net3, rid) > 1
        THEN _insertConnection(net3, rid, idx, idx - 1)
        ELSE net3

\* Route.popStation, for -nStations <= stationIndex < nStations
popStation(net, rid, stationIndex) ==
    LET idx     == IF stationIndex < 0 THEN stationIndex + nStations(net, rid)
                                       ELSE stationIndex
        station == net.routes[rid].stations[idx + 1]
        net1    == [net EXCEPT !.routes[rid].stations = ListPop(@, idx)]
        net2    == IF station \notin Range(net1.routes[rid].stations)
                   THEN StationRemoveRoute(net1, station, rid) ELSE net1
        net3    == _removeConnections(net2, rid, idx)
    IN  IF idx \notin {0, nStations(net3, rid)} /\ nStations(net3, rid) > 1
        THEN _insertConnection(net3, rid, idx, idx - 1)
        ELSE net3

RECURSIVE RemoveStationRoutes(_, _, _)
RemoveStationRoutes(net, rid, names) ==
    IF names = << >> THEN net
    ELSE RemoveStationRoutes(StationRemoveRoute(net, Head(names), rid), rid, Tail(names))

RECURSIVE RemoveConnectionRoutes(_, _, _)
RemoveConnectionRoutes(net, rid, conns) ==
    IF conns = << >> THEN net
    ELSE RemoveConnectionRoutes(
            IF Head(conns) # None THEN ConnectionRemoveRoute(net, Head(conns), rid)
                                  ELSE net,
            rid, Tail(conns))

\* Route.empty
empty(net, rid) ==
    LET net1 == RemoveStationRoutes(net, rid, net.routes[rid].stations)
        net2 == [net1 EXCEPT !.routes[rid].stations = << >>]
        net3 == RemoveConnectionRoutes(net2, rid, net2.routes[rid].connections)
    IN  [net3 EXCEPT !.routes[rid].connections = << >>]

(***************************************************************************)
(* Route queries used by the HillClimber                                   *)
(***************************************************************************)
\* a sum that counts a connection passed twice only once
RECURSIVE SumDurations_OncePerConnection(_)
SumDurations_OncePerConnection(conns) ==
    IF conns = << >> THEN 0
    ELSE (IF Head(conns) # None /\ Head(conns) \notin Range(Tail(conns))
          THEN connectionDuration(Head(conns)) ELSE 0)
         + SumDurations_OncePerConnection(Tail(conns))

RECURSIVE SumDurations(_)
SumDurations(conns) ==
    IF conns = << >> THEN 0
    ELSE (IF Head(conns) # None THEN connectionDuration(Head(conns)) ELSE 0)
         + SumDurations(Tail(conns))

\* Route.duration
duration(net, rid) == SumDurations(net.routes[rid].connections)

\* Route.getOpenStations: the indices of the head and the tail station
getOpenStations(net, rid) == {0, nStations(net, rid) - 1}

\* Station.listStations: the connected stations
listStations(name) == DOMAIN stationConnections[name]

\* hasLegalMoves that also counts a station reaching the cap exactly
hasLegalMoves_AtMost(net, rid, tMax) ==
    LET currentDuration == duration(net, rid)
    IN  /\ ~(currentDuration >= tMax)
        /\ \E index \in getOpenStations(net, rid) :
              \E o \in listStations(net.routes[rid].stations[index + 1]) :
                 currentDuration
                    + connectionDuration(getConnection(
                          net.routes[rid].stations[index + 1], o)) <= tMax

\* Route.hasLegalMoves
hasLegalMoves(net, rid, tMax) ==
    LET currentDuration == duration(net, rid)
    IN  /\ ~(currentDuration >= tMax)
        /\ \E index \in getOpenStations(net, rid) :
              \E o \in listStations(net.routes[rid].stations[index + 1]) :
                 currentDuration
                    + connectionDuration(getConnection(
                          net.routes[rid].stations[index + 1], o)) < tMax

\* getLegalMoves that also admits a station reaching the cap exactly
getLegalMoves_AtMost(net, rid, tMax) ==
    LET currentDuration == duration(net, rid)
        legalStations(index) ==
            {o \in listStations(net.routes[rid].stations[index + 1]) :
                currentDuration
                   + connectionDuration(getConnection(
                         net.routes[rid].stations[index + 1], o)) <= tMax}
    IN  [index \in {i \in getOpenStations(net, rid) : legalStations(i) # {}} |->
            legalStations(index)]

\* Route.getLegalMoves without filters: station index -> the stations that
\* can be added there; an index without such a station is not a key
getLegalMoves(net, rid, tMax) ==
    LET currentDuration == duration(net, rid)
        legalStations(index) ==
            {o \in listStations(net.routes[rid].stations[index + 1]) :
                currentDuration
                   + connectionDuration(getConnection(
                         net.routes[rid].stations[index + 1], o)) < tMax}
    IN  [index \in {i \in getOpenStations(net, rid) : legalStations(i) # {}} |->
            legalStations(index)]

\* listUnvisitedStations with the test inverted
listUnvisitedStations_Visited(net, name) ==
    {o \in listStations(name) : net.stationReg[o] # {}}

\* Station.listUnvisitedStations: the connected stations in no route
listUnvisitedStations(net, name) ==
    {o \in listStations(name) : ~(net.stationReg[o] # {})}

\* Station.listUnusedStations: the connected stations whose connection to
\* this station is in no route
listUnusedStations(net, name) ==
    {o \in listStations(name) : ~(net.connReg[getConnection(o, name)] # {})}

\* Route.getLegalMoves with the filters unusedOnly and unvisitedOnly
getLegalMovesOnly(net, rid, tMax, unusedOnly, unvisitedOnly) ==
    LET currentDuration == duration(net, rid)
        connectionList(name) ==
            IF unvisitedOnly THEN listUnvisitedStations(net, name)
            ELSE IF unusedOnly THEN listUnusedStations(net, name)
            ELSE listStations(name)
        legalStations(index) ==
            {o \in connectionList(net.routes[rid].stations[index + 1]) :
                currentDuration
                   + connectionDuration(getConnection(
                         net.routes[rid].stations[index + 1], o)) < tMax}
    IN  [index \in {i \in getOpenStations(net, rid) : legalStations(i) # {}} |->
            legalStations(index)]

\* isValid that also accepts a duration equal to the cap
isValid_AtMost(net, rid, tMax) ==
    IF length(net, rid) = 0 THEN FALSE
    ELSE IF None \in Range(net.routes[rid].connections) THEN FALSE
    ELSE IF tMax = 0 THEN TRUE
    ELSE duration(net, rid) <= tMax

\* Route.isValid
isValid(net, rid, tMax) ==
    IF length(net, rid) = 0 THEN FALSE
    ELSE IF None \in Range(net.routes[rid].connections) THEN FALSE
    ELSE IF tMax = 0 THEN TRUE
    ELSE duration(net, rid) < tMax

\* Route.getOpenStations raises Exception("route has no stations")
getOpenStationsRaises(net, rid) == nStations(net, rid) = 0

\* np.unique sorts the slots: comparing with None raises, Connection.__lt__
\* reads other._id and None has no '<'
uniqueConnectionsRaises(net, rid) ==
    /\ Len(net.routes[rid].connections) >= 2
    /\ None \in Range(net.routes[rid].connections)

\* Route.uniqueConnections: len(np.unique(connections))
uniqueConnections(net, rid) == Cardinality(Range(net.routes[rid].connections))

\* routeScore that adds the duration instead of subtracting it
routeScore_AddsDuration(net, rid, totalConnections) ==
    (uniqueConnections(net, rid) * 10000) \div totalConnections
        - 100 + duration(net, rid)

\* Route.routeScore.  uniqueConnections / totalConnections * 10000 is an
\* integer for the four connections of this graph.
routeScore(net, rid, totalConnections) ==
    (uniqueConnections(net, rid) * 10000) \div totalConnections
        - (100 + duration(net, rid))

(***************************************************************************)
(* RailNetwork                                                             *)
(***************************************************************************)
\* RailNetwork.listRoutes: the routes in id order
RECURSIVE SortedIds(_)
SortedIds(ids) ==
    IF ids = {} THEN << >>
    ELSE LET m == CHOOSE x \in ids : \A y \in ids : x <= y
         IN  <<m>> \o SortedIds(ids \ {m})

listRoutes(net) == SortedIds(DOMAIN net.routes)

\* RailNetwork.delRoute: empty the route, then drop it
delRoute(net, rid) ==
    LET net1 == empty(net, rid)
    IN  [net1 EXCEPT !.routes = [r \in (DOMAIN @) \ {rid} |-> @[r]]]

RECURSIVE SumScores(_, _)
SumScores(net, ids) ==
    IF ids = {} THEN 0
    ELSE LET r == CHOOSE x \in ids : TRUE
         IN  routeScore(net, r, Cardinality(ConnectionIDs)) + SumScores(net, ids \ {r})

\* RailNetwork.score
score(net) == SumScores(net, DOMAIN net.routes)

\* RailNetwork.createRoute followed by appendStation for the further stations
RECURSIVE AppendAll(_, _, _)
AppendAll(net, rid, names) ==
    IF names = << >> THEN net
    ELSE AppendAll(appendStation(net, rid, Head(names)), rid, Tail(names))

createRoute(net, rid, names) ==
    AppendAll(NewRoute(net, rid, Head(names)), rid, Tail(names))

\* a route that was created and lost its only station again
createEmptyRoute(net, rid, rootStation) ==
    popStation(NewRoute(net, rid, rootStation), rid, -1)

(***************************************************************************)
(* HillClimber                                                             *)
(***************************************************************************)
\* the duration cap the HillClimber passes to hasLegalMoves / getLegalMoves
TMax == 180

\* the tail shared by mutateLastStation, mutateFirstStation and
\* lengthenRoute: the networks that result from adding one legal station
\* at a randomly chosen open end, or the network itself without legal moves
\* the extension that takes any neighbour of an end, whatever the cap
AddStation_IgnoresCap(net, rid) ==
    UNION {
       {IF index > 0 THEN appendStation(net, rid, station)
        ELSE insertStation(net, rid, 0, station)
        : station \in listStations(net.routes[rid].stations[index + 1])}
       : index \in getOpenStations(net, rid)}

\* the extension without the hasLegalMoves test: random.choice of no keys
AddStation_ChooseFromNothing(net, rid) ==
    LET options == getLegalMoves(net, rid, TMax)
    IN  IF DOMAIN options = {}
        THEN {[net EXCEPT !.raised = "IndexError"]}
        ELSE UNION {
               {IF index > 0 THEN appendStation(net, rid, station)
                ELSE IF index = 0 THEN insertStation(net, rid, 0, station)
                ELSE net : station \in options[index]}
               : index \in DOMAIN options}

\* the extension both drop actions and lengthenRoute end with
AddStation(net, rid) ==
    IF ~hasLegalMoves(net, rid, TMax) THEN {net}
    ELSE LET options == getLegalMoves(net, rid, TMax)
         IN  IF DOMAIN options = {}
             THEN {[net EXCEPT !.raised = "IndexError"]}
             ELSE UNION {
                    {IF index > 0 THEN appendStation(net, rid, station)
                     ELSE IF index = 0 THEN insertStation(net, rid, 0, station)
                     ELSE net : station \in options[index]}
                    : index \in DOMAIN options}

\* mutateLastStation that leaves the route it popped empty in the network
mutateLastStation_KeepEmptied(net, rid) ==
    IF nStations(net, rid) = 0 THEN {delRoute(net, rid)}
    ELSE UNION {IF nStations(net1, rid) = 0 THEN {net1}
                ELSE AddStation(net1, rid)
                : net1 \in {popStation(net, rid, -1)}}

\* HillClimber.mutateLastStation: the possible resulting networks
mutateLastStation(net, rid) ==
    IF nStations(net, rid) = 0 THEN {delRoute(net, rid)}
    ELSE UNION {IF nStations(net1, rid) = 0 THEN {delRoute(net1, rid)}
                ELSE AddStation(net1, rid)
                : net1 \in {popStation(net, rid, -1)}}

\* HillClimber.mutateFirstStation: the possible resulting networks
mutateFirstStation(net, rid) ==
    IF nStations(net, rid) = 0 THEN {delRoute(net, rid)}
    ELSE UNION {IF nStations(net1, rid) = 0 THEN {delRoute(net1, rid)}
                ELSE AddStation(net1, rid)
                : net1 \in {popStation(net, rid, 0)}}

\* HillClimber.lengthenRoute: the possible resulting networks
lengthenRoute(net, rid) ==
    IF nStations(net, rid) = 0 THEN {delRoute(net, rid)}
    ELSE AddStation(net, rid)

\* checkSolution that accepts every candidate
checkSolution_AcceptAll(hc, newScore) ==
    [hc EXCEPT !.score = newScore,
               !.scores = Append(@, [iteration |-> hc.iteration,
                                     score |-> newScore]),
               !.exported = Append(@, hc.workModel.routes)]

\* checkSolution that keeps the rejected candidate as the work model
checkSolution_KeepCandidate(hc, newScore) ==
    LET oldScore == hc.score
    IN  IF newScore >= oldScore
        THEN [hc EXCEPT !.score = newScore,
                        !.scores = Append(@, [iteration |-> hc.iteration,
                                              score |-> newScore]),
                        !.exported = Append(@, hc.workModel.routes)]
        ELSE hc

\* checkSolution that accepts only a strictly better candidate
checkSolution_StrictOnly(hc, newScore) ==
    LET oldScore == hc.score
    IN  IF newScore > oldScore
        THEN [hc EXCEPT !.score = newScore,
                        !.scores = Append(@, [iteration |-> hc.iteration,
                                              score |-> newScore]),
                        !.exported = Append(@, hc.workModel.routes)]
        ELSE [hc EXCEPT !.workModel = hc.previousModel,
                        !.aliased = TRUE]

\* HillClimber.checkSolution: the retained score, the score history, the
\* working model and the exports after comparing newScore with the
\* retained score
checkSolution(hc, newScore) ==
    LET oldScore == hc.score
    IN  IF newScore >= oldScore
        THEN [hc EXCEPT !.score = newScore,
                        !.scores = Append(@, [iteration |-> hc.iteration,
                                              score |-> newScore]),
                        !.exported = Append(@, hc.workModel.routes)]
        ELSE [hc EXCEPT !.workModel = hc.previousModel,
                        !.aliased = TRUE]

(***************************************************************************)
(* State                                                                   *)
(***************************************************************************)
VARIABLES
    net,    \* the network holding the route under test (route id 0)
    last,   \* the operation called last and its arguments
    returned,   \* the Route query called last, its argument and its result
    hc,     \* the HillClimber object: workModel, previousModel, score,
            \* scores, iteration, whether workModel is previousModel itself
            \* (aliased), and the solutions exported
    pc,     \* where HillClimber.run is
    loop,   \* run's loop variable
    iterations, \* run's argument
    routeList,  \* the routes mutateRoute's loop has still to visit
    printed,    \* what checkSolution printed last: newScore, oldScore
    started     \* the work model as mutateRoute found it when it was entered

routeVars == <<net, last>>

climberVars == <<hc, pc, loop, iterations, routeList, printed, started>>

vars == <<connDuration, stationConnections, net, last, returned, hc, pc, loop, iterations,
          routeList, printed, started>>

(***************************************************************************)
(* Route operations called in sequence on one route                        *)
(***************************************************************************)

\* the id of the route the Route operations are called on
RouteID == 0

theStations == net.routes[RouteID].stations

theConnections == net.routes[RouteID].connections

\* no HillClimber is constructed while the Route operations are exercised
NoClimber ==
    /\ hc = [workModel |-> NoRegistrations, previousModel |-> NoRegistrations,
             score |-> 0, scores |-> << >>, iteration |-> 0,
             aliased |-> FALSE, exported |-> << >>]
    /\ pc = "none"
    /\ loop = 0
    /\ iterations = 0
    /\ routeList = << >>
    /\ printed = << >>
    /\ started = NoRegistrations

\* no Route query was called
NoQuery == [op |-> "none", arg |-> 0, raised |-> FALSE, value |-> 0]

\* RailNetwork.createRoute(rootStation) on a network without routes
Init ==
    /\ connDuration = NetworkDurations
    /\ stationConnections = StationConnections
    /\ returned = NoQuery
    /\ \E root \in StationNames : net = NewRoute(NoRegistrations, RouteID, root)
    /\ last = [op |-> "createRoute", index |-> 0, station |-> "-"]
    /\ NoClimber

\* a Python index counted from the end when negative
NormalIndex(index, n) == IF index < 0 THEN index + n ELSE index

\* last.station is the station argument, for popStation the station popped
Called(op, index, station) ==
    /\ net.raised = "none"
    /\ last' = [op |-> op, index |-> index, station |-> station]
    /\ UNCHANGED <<connDuration, stationConnections, returned, climberVars>>

\* appendStation(station) is the call insertStation(nStations(), station)
AppendStation ==
    \E station \in StationNames :
        /\ nStations(net, RouteID) < MaxStations
        /\ Called("insertStation", nStations(net, RouteID), station)
        /\ net' = appendStation(net, RouteID, station)

InsertStation ==
    \E station \in StationNames, index \in 0..MaxStations :
        /\ nStations(net, RouteID) < MaxStations
        /\ index <= nStations(net, RouteID)
        /\ Called("insertStation", index, station)
        /\ net' = insertStation(net, RouteID, index, station)

InsertStationFromEnd ==
    \E station \in StationNames, index \in (-MaxStations)..(-1) :
        /\ nStations(net, RouteID) < MaxStations
        /\ -nStations(net, RouteID) <= index
        /\ Called("insertStation", index, station)
        /\ net' = insertStation(net, RouteID, index, station)

\* popStation() with the default index -1, or popStation(index)
PopStation ==
    \E index \in (-1)..(MaxStations - 1) :
        /\ nStations(net, RouteID) > 0
        /\ index < nStations(net, RouteID)
        /\ Called("popStation", index,
                  theStations[NormalIndex(index, nStations(net, RouteID)) + 1])
        /\ net' = popStation(net, RouteID, index)

\* empty() that also clears Station._connections of the route's stations
Empty_ClearsStationConnections ==
    /\ net.raised = "none"
    /\ last' = [op |-> "empty", index |-> 0, station |-> "-"]
    /\ net' = empty(net, RouteID)
    /\ stationConnections' =
          [name \in StationNames |->
              IF name \in Range(theStations) THEN [o \in {} |-> None]
              ELSE stationConnections[name]]
    /\ UNCHANGED <<connDuration, returned, climberVars>>

Empty ==
    /\ Called("empty", 0, "-")
    /\ net' = empty(net, RouteID)

Next == AppendStation \/ InsertStation \/ PopStation \/ Empty

Spec == Init /\ [][Next]_vars

\* the Route operations with insertStation also called with negative indices
NextFromEnd == AppendStation \/ InsertStation \/ InsertStationFromEnd \/ PopStation \/ Empty

SpecFromEnd == Init /\ [][NextFromEnd]_vars

(***************************************************************************)
(* HillClimber.run                                                         *)
(***************************************************************************)
\* the routes of the networks randomSolution hands to HillClimber.__init__
InitialRoutes ==
    {<< <<"A", "B">>, <<"B", "D">> >>,
     << <<"A", "B", "C">>, <<"D">> >>,
     << <<"C", "A">>, <<"C", "B", "D">> >>,
     << <<"B", "C">>, << >> >>}

InitialModel(routes) ==
    LET first == createRoute(NoRegistrations, 0, routes[1])
    IN  IF routes[2] = << >> THEN createEmptyRoute(first, 1, "D")
        ELSE createRoute(first, 1, routes[2])

\* HillClimber.__init__, then run(iterations) is entered
InitClimber ==
    /\ connDuration = NetworkDurations
    /\ stationConnections = StationConnections
    /\ returned = NoQuery
    /\ net = NoRegistrations
    /\ last = [op |-> "__init__", index |-> 0, station |-> "-"]
    /\ \E routes \in InitialRoutes :
          hc = [workModel |-> InitialModel(routes),
                previousModel |-> InitialModel(routes),
                score |-> score(InitialModel(routes)),
                scores |-> << >>, iteration |-> 0,
                aliased |-> FALSE, exported |-> << >>]
    /\ pc = "run"
    /\ loop = 0
    /\ iterations \in 0..MaxIter
    /\ routeList = << >>
    /\ printed = << >>
    /\ started = NoRegistrations

\* mutateRoute that keeps a reference to the work model instead of a deep copy
MutateRoute_NoDeepCopy ==
    /\ pc = "run"
    /\ loop < iterations
    /\ hc' = [hc EXCEPT !.previousModel = hc.workModel, !.aliased = TRUE]
    /\ routeList' = listRoutes(hc.workModel)
    /\ pc' = "mutateRoute"
    /\ started' = hc.workModel
    /\ last' = [op |-> "mutateRoute", index |-> 0, station |-> "-"]
    /\ UNCHANGED <<loop, iterations, printed, net, connDuration, stationConnections, returned>>

\* HillClimber.mutateRoute up to its loop: the deep copy of the work model
MutateRoute ==
    /\ pc = "run"
    /\ loop < iterations
    /\ hc' = [hc EXCEPT !.previousModel = hc.workModel, !.aliased = FALSE]
    /\ routeList' = listRoutes(hc.workModel)
    /\ pc' = "mutateRoute"
    /\ started' = hc.workModel
    /\ last' = [op |-> "mutateRoute", index |-> 0, station |-> "-"]
    /\ UNCHANGED <<loop, iterations, printed, net, connDuration, stationConnections, returned>>

\* one pass of mutateRoute's loop: the route is handed to the function op,
\* which has the given outcomes; last.index is the route's id
Mutated(op, outcomes) ==
    /\ pc = "mutateRoute"
    /\ routeList # << >>
    /\ hc.workModel.raised = "none"
    /\ \E model \in outcomes :
          hc' = [hc EXCEPT !.workModel = model,
                           !.previousModel = IF hc.aliased THEN model ELSE @]
    /\ routeList' = Tail(routeList)
    /\ last' = [op |-> op, index |-> Head(routeList), station |-> "-"]
    /\ UNCHANGED <<pc, loop, iterations, printed, started, net, connDuration, stationConnections,
                   returned>>

\* randomFloat < 0.33
MutateLastStation ==
    /\ routeList # << >>
    /\ Mutated("mutateLastStation", mutateLastStation(hc.workModel, Head(routeList)))

\* randomFloat > 0.67
MutateFirstStation ==
    /\ routeList # << >>
    /\ Mutated("mutateFirstStation", mutateFirstStation(hc.workModel, Head(routeList)))

\* otherwise
LengthenRoute ==
    /\ routeList # << >>
    /\ Mutated("lengthenRoute", lengthenRoute(hc.workModel, Head(routeList)))

\* checkSolution on the mutated work model, then run's iteration += 1
CheckSolution ==
    /\ pc = "mutateRoute"
    /\ routeList = << >>
    /\ hc.workModel.raised = "none"
    /\ printed' = <<score(hc.workModel), hc.score>>
    /\ hc' = [checkSolution(hc, score(hc.workModel)) EXCEPT !.iteration = @ + 1]
    /\ loop' = loop + 1
    /\ pc' = "run"
    /\ last' = [op |-> "checkSolution", index |-> 0, station |-> "-"]
    /\ UNCHANGED <<iterations, routeList, started, net, connDuration, stationConnections, returned>>

\* a run that also stops as soon as a candidate was rejected
ExportScores_WhenRejected ==
    /\ pc = "run"
    /\ \/ loop = iterations
       \/ printed # << >> /\ printed[1] < printed[2]
    /\ pc' = "done"
    /\ UNCHANGED <<hc, loop, iterations, routeList, printed, started, routeVars,
                   connDuration, stationConnections, returned>>

\* the loop is over: exportScores
ExportScores ==
    /\ pc = "run"
    /\ loop = iterations
    /\ pc' = "done"
    /\ UNCHANGED <<hc, loop, iterations, routeList, printed, started, routeVars,
                   connDuration, stationConnections, returned>>

NextClimber ==
    \/ MutateRoute
    \/ LengthenRoute
    \/ MutateLastStation
    \/ MutateFirstStation
    \/ CheckSolution
    \/ ExportScores

SpecClimber == InitClimber /\ [][NextClimber]_vars

\* run is a sequential loop: a step that can be taken is taken
FairSpecClimber == SpecClimber /\ WF_vars(NextClimber)

(***************************************************************************)
(* The Route operations on one route, or a HillClimber run                 *)
(***************************************************************************)
InitOperations == Init \/ InitClimber

NextOperations ==
    \/ pc = "none" /\ NextFromEnd
    \/ NextClimber

SpecOperations == InitOperations /\ [][NextOperations]_vars

(***************************************************************************)
(* Route queries called on a route built by createRoute and appendStation  *)
(***************************************************************************)
\* the durations of the scenario network A-B-C with AB = 10 and BC = 15
ScenarioDurations ==
    [c \in ConnectionIDs |->
        CASE c = 1 -> 10 [] c = 2 -> 15 [] c = 3 -> 20 [] OTHER -> 30]

Caps == {10 * k : k \in 0..MaxCap}

\* the totalConnections for which u / totalConnections * 10000 is an integer
Totals == {t \in 1..MaxTotal : 10000 % t = 0}

StationSequences == UNION {[1..n -> StationNames] : n \in 0..MaxStations}

\* the network after createRoute(names[1]) and appendStation of the others
BuiltRoute(names) ==
    IF names = << >> THEN createEmptyRoute(NoRegistrations, RouteID, "A")
    ELSE createRoute(NoRegistrations, RouteID, names)

BuiltRoutes == {BuiltRoute(names) : names \in StationSequences}

\* the built route next to a second route over B and D
BesideOtherRoute == {createRoute(built, RouteID + 1, <<"B", "D">>) : built \in BuiltRoutes}

InitQuery ==
    /\ stationConnections = StationConnections
    /\ \/ connDuration \in {NetworkDurations, ScenarioDurations} /\ net \in BuiltRoutes
       \/ connDuration = NetworkDurations /\ net \in BesideOtherRoute
    /\ returned = NoQuery
    /\ last = [op |-> "createRoute", index |-> 0, station |-> "-"]
    /\ NoClimber

\* the built route is queried: the query returns value, or raises; the route
\* is left alone
Queried(op, arg, raised, value) ==
    /\ returned = NoQuery
    /\ returned' = [op |-> op, arg |-> arg, raised |-> raised,
                    value |-> IF raised THEN 0 ELSE value]
    /\ UNCHANGED <<connDuration, stationConnections, net, last, climberVars>>

GetLegalMoves ==
    \E tMax \in Caps :
        Queried("getLegalMoves", tMax, getOpenStationsRaises(net, RouteID),
                getLegalMoves(net, RouteID, tMax))

\* getLegalMoves(tMax, unusedOnly=..., unvisitedOnly=...), a filter set
GetLegalMovesOnly ==
    \E tMax \in Caps, unusedOnly \in BOOLEAN, unvisitedOnly \in BOOLEAN :
        /\ unusedOnly \/ unvisitedOnly
        /\ Queried("getLegalMovesOnly",
                   [tMax |-> tMax, unusedOnly |-> unusedOnly,
                    unvisitedOnly |-> unvisitedOnly],
                   getOpenStationsRaises(net, RouteID),
                   getLegalMovesOnly(net, RouteID, tMax, unusedOnly, unvisitedOnly))

HasLegalMoves ==
    \E tMax \in Caps :
        Queried("hasLegalMoves", tMax,
                duration(net, RouteID) < tMax /\ getOpenStationsRaises(net, RouteID),
                hasLegalMoves(net, RouteID, tMax))

IsValid ==
    \E tMax \in Caps :
        Queried("isValid", tMax, FALSE, isValid(net, RouteID, tMax))

Duration == Queried("duration", 0, FALSE, duration(net, RouteID))

Length == Queried("length", 0, FALSE, length(net, RouteID))

UniqueConnections ==
    Queried("uniqueConnections", 0, uniqueConnectionsRaises(net, RouteID),
            uniqueConnections(net, RouteID))

RouteScore ==
    \E totalConnections \in Totals :
        Queried("routeScore", totalConnections,
                uniqueConnectionsRaises(net, RouteID),
                routeScore(net, RouteID, totalConnections))

NextQuery ==
    \/ GetLegalMoves
    \/ GetLegalMovesOnly
    \/ HasLegalMoves
    \/ IsValid
    \/ Duration
    \/ Length
    \/ UniqueConnections
    \/ RouteScore

SpecQuery == InitQuery /\ [][NextQuery]_vars

(***************************************************************************)
(* addRoute and removeRoute called directly on a station or a connection   *)
(***************************************************************************)
RouteIDs == 0..MaxRouteID

\* the nodes called: two stations and the connection between them
RegisterStations == {"A", "B"}

RegisterConnections == {getConnection("A", "B")}

NoCall == [op |-> "none", arg |-> <<"-", 0>>, raised |-> FALSE, value |-> None]

InitRegister ==
    /\ connDuration = NetworkDurations
    /\ stationConnections = StationConnections
    /\ net = NoRegistrations
    /\ returned = NoCall
    /\ last = [op |-> "none", index |-> 0, station |-> "-"]
    /\ NoClimber

\* returned is the call made now (node and route id in arg), last the call
\* made before it
Registered(op, node, rid) ==
    /\ net.raised = "none"
    /\ returned' = [op |-> op, arg |-> <<node, rid>>, raised |-> FALSE,
                    value |-> None]
    /\ last' = [op |-> returned.op, index |-> returned.arg[2],
                station |-> returned.arg[1]]
    /\ UNCHANGED <<connDuration, stationConnections, climberVars>>

StationAddRouteCall ==
    \E name \in RegisterStations, rid \in RouteIDs :
        /\ Registered("Station.addRoute", name, rid)
        /\ net' = StationAddRoute(net, name, rid)

StationRemoveRouteCall ==
    \E name \in RegisterStations, rid \in RouteIDs :
        /\ Registered("Station.removeRoute", name, rid)
        /\ net' = StationRemoveRoute(net, name, rid)

ConnectionAddRouteCall ==
    \E c \in RegisterConnections, rid \in RouteIDs :
        /\ Registered("Connection.addRoute", c, rid)
        /\ net' = ConnectionAddRoute(net, c, rid)

ConnectionRemoveRouteCall ==
    \E c \in RegisterConnections, rid \in RouteIDs :
        /\ Registered("Connection.removeRoute", c, rid)
        /\ net' = ConnectionRemoveRoute(net, c, rid)

NextRegister ==
    \/ StationAddRouteCall
    \/ StationRemoveRouteCall
    \/ ConnectionAddRouteCall
    \/ ConnectionRemoveRouteCall

SpecRegister == InitRegister /\ [][NextRegister]_vars

(***************************************************************************)
(* Properties of the Route operations                                      *)
(***************************************************************************)
\* the edge of the graph between two stations, None when there is none
GraphEdges ==
    [a \in StationNames, b \in StationNames |->
        IF \E c \in ConnectionIDs : ConnectionNodes[c].stations = {a, b} /\ a # b
        THEN CHOOSE c \in ConnectionIDs : ConnectionNodes[c].stations = {a, b}
        ELSE None]

GraphEdge(a, b) == GraphEdges[a, b]

\* every slot i is the edge between stations i and i + 1
SlotsDerived(route) ==
    /\ Len(route.connections) = IF route.stations = << >> THEN 0
                                ELSE Len(route.stations) - 1
    /\ \A i \in DOMAIN route.connections :
          route.connections[i] = GraphEdge(route.stations[i], route.stations[i + 1])

\* C1: the route is registered on a connection if and only if the
\* connection occurs in the route's connection sequence.
C1_ConnectionRegisteredIffInRoute ==
    \A c \in ConnectionIDs :
        RouteID \in net.connReg[c] <=> c \in Range(theConnections)

\* C2: the route is registered on a station if and only if the station
\* occurs in the route's station sequence; a station popped once that still
\* occurs elsewhere stays registered.
C2_StationRegisteredIffInRoute ==
    \A s \in StationNames :
        RouteID \in net.stationReg[s] <=> s \in Range(theStations)

C2_Witness ==
    /\ last.op = "popStation"
    /\ last.station \in Range(theStations)
    /\ RouteID \in net.stationReg[last.station]

\* C3: the route has one connection slot fewer than stations, and none
\* when it has no station.
C3_OneSlotFewerThanStations ==
    Len(theConnections) = IF Len(theStations) = 0 THEN 0 ELSE Len(theStations) - 1

C3_Witness ==
    /\ last.op = "popStation"
    /\ last.index = 1
    /\ Len(theStations) = 2
    /\ Len(theConnections) = 1

\* C4: with insert indices in 0..nStations every slot i holds the graph
\* edge between stations i and i + 1, and None exactly when there is none.
C4_SlotsAreGraphEdges ==
    \A i \in DOMAIN theConnections :
        /\ i < Len(theStations)
        /\ theConnections[i] = GraphEdge(theStations[i], theStations[i + 1])

C4_Witness ==
    /\ last.op = "insertStation"
    /\ 0 < last.index /\ last.index < Len(theStations) - 1
    /\ None \in Range(theConnections)
    /\ Range(theConnections) # {None}

\* C5: insertStation with a negative index -nStations <= k < 0 on a route of
\* at least two stations places the station counting from the end and leaves
\* every slot the edge between its two stations.
C5_InsertFromEndDerivesSlots ==
    [][(/\ last'.op = "insertStation"
        /\ last'.index < 0
        /\ nStations(net, RouteID) >= 2
        /\ SlotsDerived(net.routes[RouteID]))
       => (/\ theStations' = ListInsert(theStations,
                                nStations(net, RouteID) + last'.index, last'.station)
           /\ SlotsDerived(net'.routes[RouteID]))]_vars

\* C6: insertStation at an interior index completes without error and puts
\* two slots in place of the one spanning the gap, each the graph edge to
\* that neighbour or None.
C6_InteriorInsertCompletes ==
    [][(/\ last'.op = "insertStation"
        /\ 0 < last'.index
        /\ last'.index < nStations(net, RouteID))
       => LET i == last'.index
          IN  /\ net'.raised = "none"
              /\ theStations' = ListInsert(theStations, i, last'.station)
              /\ theConnections' =
                    SubSeq(theConnections, 1, i - 1)
                    \o <<GraphEdge(theStations[i], last'.station),
                         GraphEdge(last'.station, theStations[i + 1])>>
                    \o SubSeq(theConnections, i + 1, Len(theConnections))]_vars

\* C7: popStation at an interior index of a route of at least three stations
\* removes the station and both adjacent slots and puts in their place the
\* edge between the new neighbours, registered, or None; the rest keeps its
\* order.
C7_InteriorPopReconnects ==
    [][(/\ last'.op = "popStation"
        /\ nStations(net, RouteID) >= 3
        /\ NormalIndex(last'.index, nStations(net, RouteID)) \in
              1..(nStations(net, RouteID) - 2))
       => LET i == NormalIndex(last'.index, nStations(net, RouteID))
              e == GraphEdge(theStations[i], theStations[i + 2])
          IN  /\ theStations' = ListPop(theStations, i)
              /\ theConnections' =
                    SubSeq(theConnections, 1, i - 1) \o <<e>>
                    \o SubSeq(theConnections, i + 2, Len(theConnections))
              /\ e # None => RouteID \in net'.connReg[e]]_vars

C7_Witness ==
    /\ last.op = "popStation"
    /\ last.index = 1
    /\ Len(theStations) = 2
    /\ theConnections = <<GraphEdge(theStations[1], theStations[2])>>
    /\ theConnections[1] # None
    /\ RouteID \in net.connReg[theConnections[1]]

\* C8: popStation at an endpoint of a route of at least two stations removes
\* that station and the one slot next to it, inserts nothing, keeps the rest
\* in order, and unregisters the route from the popped station and from the
\* removed connection exactly when they no longer occur in the route.
C8_EndpointPop ==
    [][(/\ last'.op = "popStation"
        /\ nStations(net, RouteID) >= 2
        /\ NormalIndex(last'.index, nStations(net, RouteID)) \in
              {0, nStations(net, RouteID) - 1})
       => LET n == nStations(net, RouteID)
              i == NormalIndex(last'.index, n)
              j == IF i = 0 THEN 0 ELSE n - 2
              s == theStations[i + 1]
              c == theConnections[j + 1]
          IN  /\ theStations' = ListPop(theStations, i)
              /\ theConnections' = ListPop(theConnections, j)
              /\ net'.stationReg =
                    IF s \in Range(theStations') THEN net.stationReg
                    ELSE [net.stationReg EXCEPT ![s] = @ \ {RouteID}]
              /\ net'.connReg =
                    IF c = None \/ c \in Range(theConnections') THEN net.connReg
                    ELSE [net.connReg EXCEPT ![c] = @ \ {RouteID}]]_vars

C8_Witness ==
    /\ last.op = "popStation"
    /\ last.index = -1
    /\ Len(theStations) = 2
    /\ last.station = theStations[1]
    /\ theConnections[1] # None
    /\ RouteID \in net.connReg[theConnections[1]]

\* C9: after empty() the route has no station and no slot, and no station
\* and no connection still has the route's id in its routes set.
C9_EmptyReleasesEverything ==
    last.op = "empty" =>
        /\ theStations = << >>
        /\ theConnections = << >>
        /\ \A s \in StationNames : RouteID \notin net.stationReg[s]
        /\ \A c \in ConnectionIDs : RouteID \notin net.connReg[c]

(***************************************************************************)
(* Properties of the HillClimber                                           *)
(***************************************************************************)
\* C10: the retained score of the HillClimber never decreases from one
\* iteration to the next.
C10_RetainedScoreNeverDecreases ==
    [][hc'.score >= hc.score]_vars

\* an iteration was rejected and the retained score was kept
C10_Witness ==
    /\ hc.iteration >= 1
    /\ printed # << >>
    /\ printed[1] < printed[2]
    /\ hc.score = printed[2]

\* a step of checkSolution: run leaves mutateRoute's loop and evaluates
CheckSolutionStep == pc = "mutateRoute" /\ pc' = "run"

\* C11: when an iteration is rejected, the work model the next iteration
\* starts from is the network as it was at the start of the rejected
\* iteration: routes, sequences and registrations.
C11_RejectionRestoresStart ==
    [][(CheckSolutionStep /\ score(hc.workModel) < hc.score)
       => (/\ hc'.workModel = started
           /\ hc'.workModel.routes = started.routes
           /\ hc'.workModel.stationReg = started.stationReg
           /\ hc'.workModel.connReg = started.connReg)]_vars

\* a rejected iteration whose candidate differed from the network it started from
C11_Witness ==
    /\ last.op = "checkSolution"
    /\ printed[1] < printed[2]
    /\ hc.workModel = started
    /\ score(started) # printed[1]

\* C12: the candidate is accepted exactly when its score is at least the
\* retained score; acceptance appends one (iteration, score) entry with the
\* current iteration number and exports the candidate, rejection changes
\* neither the history nor the exports.
C12_AcceptIffNotWorse ==
    [][CheckSolutionStep
       => IF score(hc.workModel) >= hc.score
          THEN /\ hc'.score = score(hc.workModel)
               /\ hc'.workModel = hc.workModel
               /\ hc'.scores = Append(hc.scores, [iteration |-> hc.iteration,
                                                  score |-> score(hc.workModel)])
               /\ hc'.exported = Append(hc.exported, hc.workModel.routes)
          ELSE /\ hc'.score = hc.score
               /\ hc'.scores = hc.scores
               /\ hc'.exported = hc.exported]_vars

\* a candidate with the retained score was accepted
C12_Witness ==
    /\ last.op = "checkSolution"
    /\ printed[1] = printed[2]
    /\ hc.scores # << >>
    /\ hc.scores[Len(hc.scores)] = [iteration |-> hc.iteration - 1, score |-> printed[1]]
    /\ Len(hc.exported) = Len(hc.scores)

\* a pass of mutateRoute's loop: one route is handed to a mutation function
MutationStep == pc = "mutateRoute" /\ routeList # << >> /\ routeList' = Tail(routeList)

\* C13: a mutation function that finds its route empty, or pops its last
\* station, deletes the route in the same step; the route it has handled is
\* never left with zero stations, and after the loop no route of the work
\* model has zero stations.
C13_NoEmptyRouteRemains ==
    [][MutationStep
       => LET r == Head(routeList)
          IN  /\ r \in DOMAIN hc'.workModel.routes
                    => hc'.workModel.routes[r].stations # << >>
              /\ nStations(hc.workModel, r) = 0
                    => r \notin DOMAIN hc'.workModel.routes
              /\ (/\ last'.op \in {"mutateLastStation", "mutateFirstStation"}
                  /\ nStations(hc.workModel, r) = 1)
                    => r \notin DOMAIN hc'.workModel.routes
              /\ routeList' = << >>
                    => \A q \in DOMAIN hc'.workModel.routes :
                          hc'.workModel.routes[q].stations # << >>]_vars

\* the last station of a route was popped and the route is gone
C13_Witness ==
    /\ last.op = "mutateLastStation"
    /\ last.index \in DOMAIN started.routes
    /\ Len(started.routes[last.index].stations) = 1
    /\ last.index \notin DOMAIN hc.workModel.routes

\* no neighbour of either end of the route can be added below the cap
RouteHasNoLegalMove(model, r) ==
    LET route == model.routes[r]
        ends  == {route.stations[1], route.stations[Len(route.stations)]}
    IN  \A e \in ends : \A b \in StationNames :
           GraphEdge(e, b) # None
              => duration(model, r) + connDuration[GraphEdge(e, b)] >= TMax

\* the work model at the moment the function op attempts its extension
AtExtension(model, r, op) ==
    IF op = "mutateLastStation" THEN popStation(model, r, -1)
    ELSE IF op = "mutateFirstStation" THEN popStation(model, r, 0)
    ELSE model

\* the next pass of mutateRoute's loop, or checkSolution after it, can run
LoopGoesOn ==
    ENABLED (MutateLastStation \/ MutateFirstStation \/ LengthenRoute
             \/ CheckSolution)

\* C14: a route without a legal move at the cap when its extension is
\* attempted gets no station added and raises nothing; the loop goes on to the
\* remaining routes and to checkSolution; lengthenRoute leaves the whole work
\* model as it was.
C14_NoLegalMoveIsSkipped ==
    [][(/\ MutationStep
        /\ nStations(hc.workModel, Head(routeList)) > 0
        /\ nStations(AtExtension(hc.workModel, Head(routeList), last'.op),
                     Head(routeList)) > 0
        /\ RouteHasNoLegalMove(AtExtension(hc.workModel, Head(routeList), last'.op),
                               Head(routeList)))
       => /\ hc'.workModel = AtExtension(hc.workModel, Head(routeList), last'.op)
          /\ hc'.workModel.raised = "none"
          /\ last'.op = "lengthenRoute" => hc'.workModel = hc.workModel
          /\ pc' = "mutateRoute"
          /\ routeList' = Tail(routeList)
          /\ LoopGoesOn']_vars

\* lengthenRoute met the first route of an iteration without a legal move and
\* left the work model as the iteration found it, another route still to come
C14_Witness ==
    /\ last.op = "lengthenRoute"
    /\ listRoutes(started) # << >>
    /\ last.index = Head(listRoutes(started))
    /\ routeList = Tail(listRoutes(started))
    /\ routeList # << >>
    /\ nStations(started, last.index) > 0
    /\ RouteHasNoLegalMove(started, last.index)
    /\ hc.workModel = started

(***************************************************************************)
(* Properties of the Route queries                                         *)
(***************************************************************************)
\* the stations adjacent to the station at index that fit below the cap
Candidates(index, tMax) ==
    LET station == net.routes[RouteID].stations[index + 1]
    IN  {b \in StationNames :
            /\ GraphEdge(station, b) # None
            /\ duration(net, RouteID) + connDuration[GraphEdge(station, b)] < tMax}

\* C15: getLegalMoves(maxDuration) without filters is keyed by exactly the
\* endpoint indices 0 and nStations - 1 whose station has an adjacent station
\* with duration() + d < maxDuration, each key holds exactly those stations,
\* no key holds an empty list and no other index is a key.
C15_LegalMovesAreEndpointCandidates ==
    (returned.op = "getLegalMoves" /\ ~returned.raised)
    => LET ends == {0, nStations(net, RouteID) - 1}
       IN  /\ DOMAIN returned.value
                 = {i \in ends : Candidates(i, returned.arg) # {}}
           /\ DOMAIN returned.value \subseteq ends
           /\ \A i \in DOMAIN returned.value :
                 /\ returned.value[i] = Candidates(i, returned.arg)
                 /\ returned.value[i] # {}

\* only the head of a longer route is a key, and a neighbour of the tail
\* would reach the cap exactly
C15_Witness ==
    /\ returned.op = "getLegalMoves"
    /\ ~returned.raised
    /\ nStations(net, RouteID) >= 2
    /\ DOMAIN returned.value = {0}
    /\ \E b \in StationNames :
          LET tail == net.routes[RouteID].stations[nStations(net, RouteID)]
          IN  /\ GraphEdge(tail, b) # None
              /\ duration(net, RouteID) + connDuration[GraphEdge(tail, b)]
                    = returned.arg

\* C16: on a route with at least one station, hasLegalMoves(maxDuration) is
\* True exactly when getLegalMoves(maxDuration) without filters is not empty.
C16_HasLegalMovesIffSomeLegalMove ==
    (returned.op = "hasLegalMoves" /\ nStations(net, RouteID) > 0)
    => /\ ~returned.raised
       /\ returned.value
             = (DOMAIN getLegalMoves(net, RouteID, returned.arg) # {})

\* hasLegalMoves went through every neighbour of both ends, found none below
\* the cap, and one of them reaches the cap exactly
C16_Witness ==
    /\ returned.op = "hasLegalMoves"
    /\ nStations(net, RouteID) >= 2
    /\ returned.value = FALSE
    /\ duration(net, RouteID) < returned.arg
    /\ \E i \in {0, nStations(net, RouteID) - 1} : \E b \in StationNames :
          LET station == net.routes[RouteID].stations[i + 1]
          IN  /\ GraphEdge(station, b) # None
              /\ duration(net, RouteID) + connDuration[GraphEdge(station, b)]
                    = returned.arg

\* C17: isValid(tMax) is True exactly when the route has a connection slot, no
\* slot is None, and tMax is 0 or duration() < tMax; a duration equal to tMax
\* is not valid and a route of one station never is.
C17_ValidIffConnectedUnbrokenBelowCap ==
    returned.op = "isValid"
    => LET connections == net.routes[RouteID].connections
       IN  /\ ~returned.raised
           /\ returned.value
                 = (/\ Len(connections) >= 1
                    /\ \A i \in DOMAIN connections : connections[i] # None
                    /\ (returned.arg = 0 \/ duration(net, RouteID) < returned.arg))
           /\ (/\ returned.arg # 0
               /\ duration(net, RouteID) = returned.arg) => returned.value = FALSE
           /\ nStations(net, RouteID) = 1 => returned.value = FALSE

\* an unbroken route whose duration equals the cap was found not valid
C17_Witness ==
    /\ returned.op = "isValid"
    /\ Len(net.routes[RouteID].connections) >= 1
    /\ \A i \in DOMAIN net.routes[RouteID].connections :
          net.routes[RouteID].connections[i] # None
    /\ returned.arg # 0
    /\ duration(net, RouteID) = returned.arg
    /\ returned.value = FALSE

\* how many slots hold connection c
Occurrences(connections, c) ==
    Cardinality({i \in DOMAIN connections : connections[i] = c})

\* the durations of connections 1..c, each weighted by its occurrences
RECURSIVE OccurrenceSum(_, _)
OccurrenceSum(connections, c) ==
    IF c = 0 THEN 0
    ELSE Occurrences(connections, c) * connDuration[c]
            + OccurrenceSum(connections, c - 1)

\* createRoute(A), append(B), append(C) over the edges AB = 10, BC = 15
ScenarioRoute ==
    /\ connDuration = ScenarioDurations
    /\ net = BuiltRoute(<<"A", "B", "C">>)

\* C18: duration() is the sum of the durations of the slots that hold a
\* connection, once per occurrence, a None slot counting 0; length() is the
\* number of slots; the scenario route has duration 25, length 2, is valid for
\* the cap 30 and not valid for the cap 20.
C18_DurationSumsSlots ==
    /\ returned.op = "duration"
          => /\ ~returned.raised
             /\ returned.value
                   = OccurrenceSum(net.routes[RouteID].connections,
                                   Cardinality(ConnectionIDs))
             /\ ScenarioRoute => returned.value = 25
    /\ returned.op = "length"
          => /\ ~returned.raised
             /\ returned.value = Len(net.routes[RouteID].connections)
             /\ ScenarioRoute => returned.value = 2
    /\ (returned.op = "isValid" /\ ScenarioRoute)
          => /\ returned.arg = 30 => returned.value = TRUE
             /\ returned.arg = 20 => returned.value = FALSE

\* duration() of a route that passes one connection twice
C18_Witness ==
    /\ returned.op = "duration"
    /\ \E c \in ConnectionIDs :
          /\ Occurrences(net.routes[RouteID].connections, c) = 2
          /\ returned.value = 2 * connDuration[c]

\* C19: uniqueConnections() counts the connections that occur exactly once in
\* the route's connection sequence; a connection the route passes twice, as
\* with the stations [A, B, A], does not count.
C19_UniqueConnectionsOccurOnce ==
    (/\ returned.op = "uniqueConnections"
     /\ ~returned.raised
     /\ None \notin Range(net.routes[RouteID].connections))
    => returned.value
          = Cardinality({c \in ConnectionIDs :
                           Occurrences(net.routes[RouteID].connections, c) = 1})

C21_RunEndsAfterAllIterations ==
    /\ <>(pc = "done")
    /\ [](pc = "done" => (loop = iterations /\ hc.iteration = iterations))
    /\ [](pc = "run" => hc.iteration = loop)
    /\ [][(pc = "run" /\ pc' = "mutateRoute") => loop < iterations]_vars
    /\ [][(pc = "run" /\ pc' = "done") => loop = iterations]_vars
    /\ [][CheckSolutionStep
           => (routeList = << >> /\ loop' = loop + 1
               /\ hc'.iteration = hc.iteration + 1)]_vars

\* a run of at least two iterations has ended although a candidate was rejected
C21_Witness ==
    /\ pc = "done"
    /\ iterations >= 2
    /\ hc.iteration = iterations
    /\ Len(hc.scores) < iterations

(***************************************************************************)
(* Properties of the routes sets of stations and connections               *)
(***************************************************************************)
\* the routes set of the node a call names
RoutesOf(network, call) ==
    IF call.op \in {"Station.addRoute", "Station.removeRoute"}
    THEN network.stationReg[call.arg[1]]
    ELSE network.connReg[call.arg[1]]

\* C22: addRoute of an id that is in the routes set and removeRoute of an id
\* that is not leave the station or connection as it was and raise nothing;
\* after removeRoute(id) the id is absent, however often it was added before.
C22_RegistrationIsIdempotent ==
    [][returned'.op \in {"Station.addRoute", "Station.removeRoute",
                         "Connection.addRoute", "Connection.removeRoute"}
       => LET rid    == returned'.arg[2]
              before == RoutesOf(net, returned')
              after  == RoutesOf(net', returned')
          IN  /\ net'.raised = "none"
              /\ returned'.op \in {"Station.addRoute", "Connection.addRoute"}
                    => /\ after = before \cup {rid}
                       /\ rid \in before => net' = net
              /\ returned'.op \in {"Station.removeRoute", "Connection.removeRoute"}
                    => /\ after = before \ {rid}
                       /\ rid \notin after
                       /\ rid \notin before => net' = net]_vars

\* removeRoute(id) was called twice in a row on a station that keeps the
\* other id: the second call found the id absent
C22_Witness ==
    /\ returned.op = "Station.removeRoute"
    /\ last.op = "Station.removeRoute"
    /\ last.station = returned.arg[1]
    /\ last.index = returned.arg[2]
    /\ net.raised = "none"
    /\ net.stationReg[returned.arg[1]] = RouteIDs \ {returned.arg[2]}
    /\ net.stationReg[returned.arg[1]] # {}

(***************************************************************************)
(* Properties of the registrations after an interior insertStation         *)
(***************************************************************************)
\* the route is registered on exactly the connections in its slots
RegisteredOnItsSlots(network, rid) ==
    \A c \in ConnectionIDs :
        rid \in network.connReg[c] <=> c \in Range(network.routes[rid].connections)

\* insertStation is called at an interior index of a consistent route
InteriorInsert ==
    /\ last'.op = "insertStation"
    /\ 0 < last'.index
    /\ last'.index < nStations(net, RouteID)
    /\ SlotsDerived(net.routes[RouteID])
    /\ RegisteredOnItsSlots(net, RouteID)

\* C23: when an interior insertStation supersedes a connection, the route is
\* unregistered from it exactly when it no longer occurs in the route's
\* slots, and its registration on the connections that are neither superseded
\* nor newly derived stays as it was.
C23_SupersededUnregisteredIffGone ==
    [][(InteriorInsert /\ theConnections[last'.index] # None)
       => LET i   == last'.index
              old == theConnections[i]
              new == {GraphEdge(theStations[i], last'.station),
                      GraphEdge(last'.station, theStations[i + 1])}
          IN  /\ RouteID \notin net'.connReg[old]
                    <=> old \notin Range(theConnections')
              /\ \A c \in ConnectionIDs \ ({old} \cup new) :
                    net'.connReg[c] = net.connReg[c]]_vars

\* C24: after an interior insertStation the route is registered on the edge
\* between the new station and its predecessor and on the edge between the new
\* station and its successor, whichever of them exist, also when the slot
\* superseded was None.
C24_RegisteredOnBothNewConnections ==
    [][InteriorInsert
       => LET i == last'.index
              p == GraphEdge(theStations[i], last'.station)
              q == GraphEdge(last'.station, theStations[i + 1])
          IN  /\ p # None => RouteID \in net'.connReg[p]
              /\ q # None => RouteID \in net'.connReg[q]]_vars

(***************************************************************************)
(* Properties of the filtered legal moves                                  *)
(***************************************************************************)
\* C25: with unvisitedOnly set getLegalMoves returns only stations that are
\* registered to no route, with unusedOnly set and unvisitedOnly unset only
\* stations whose connection to the endpoint is registered to no route; every
\* station returned is adjacent to its endpoint and fits below the cap.
C25_FilteredMovesAreUnvisitedOrUnused ==
    (returned.op = "getLegalMovesOnly" /\ ~returned.raised)
    => \A i \in DOMAIN returned.value : \A b \in returned.value[i] :
          LET edge == GraphEdge(net.routes[RouteID].stations[i + 1], b)
          IN  /\ edge # None
              /\ duration(net, RouteID) + connDuration[edge] < returned.arg.tMax
              /\ returned.arg.unvisitedOnly => net.stationReg[b] = {}
              /\ (returned.arg.unusedOnly /\ ~returned.arg.unvisitedOnly)
                    => net.connReg[edge] = {}

\* unusedOnly alone returned a station that a route visits, over a connection
\* no route uses, and left out a neighbour below the cap
C25_Witness ==
    /\ returned.op = "getLegalMovesOnly"
    /\ ~returned.raised
    /\ returned.arg.unusedOnly
    /\ ~returned.arg.unvisitedOnly
    /\ \E i \in DOMAIN returned.value :
          /\ \E b \in returned.value[i] : net.stationReg[b] # {}
          /\ returned.value[i] # Candidates(i, returned.arg.tMax)

(***************************************************************************)
(* Properties of the graph under the operations                            *)
(***************************************************************************)
\* the stations whose Station._connections hold connection c
EndpointsOf(c) ==
    {name \in StationNames :
        \E o \in DOMAIN stationConnections[name] : stationConnections[name][o] = c}

\* C26: no Route operation and no HillClimber mutation changes a station's
\* adjacency map or a connection's duration or endpoints: the graph stays as
\* constructed, only the routes sets change.
C26_GraphIsNeverChanged ==
    /\ [](/\ stationConnections = StationConnections
          /\ \A c \in ConnectionIDs : EndpointsOf(c) = ConnectionNodes[c].stations)
    /\ [][/\ stationConnections' = stationConnections
          /\ connDuration' = connDuration]_vars

\* a route was emptied, or a mutation changed the registrations of the work
\* model, and the graph is as constructed
C26_Witness ==
    /\ stationConnections = StationConnections
    /\ connDuration = NetworkDurations
    /\ \/ /\ last.op = "empty"
          /\ net.stationReg = NoRegistrations.stationReg
       \/ /\ last.op \in {"mutateLastStation", "mutateFirstStation", "lengthenRoute"}
          /\ hc.workModel.connReg # started.connReg

(***************************************************************************)
(* Properties of the HillClimber's retained state                          *)
(***************************************************************************)
\* C27: before the first iteration and after every checkSolution, accepting
\* or rejecting, the retained score is the score of the work model; the
\* previous model is the copy taken by mutateRoute and no mutation of the
\* work model alters it.
C27_RetainedScoreIsScoreOfWorkModel ==
    /\ [](pc \in {"run", "done"} => hc.score = score(hc.workModel))
    /\ [][MutationStep => (/\ hc'.previousModel = hc.previousModel
                           /\ hc'.previousModel = started)]_vars

\* an iteration that changed the work model was rejected and the retained
\* score is the score of the restored work model
C27_Witness ==
    /\ pc = "run"
    /\ last.op = "checkSolution"
    /\ printed[1] < printed[2]
    /\ hc.score = printed[2]
    /\ hc.score = score(hc.workModel)
    /\ hc.previousModel = started

(***************************************************************************)
(* Properties of the routes of the work model                              *)
(***************************************************************************)
\* the route has no None slot, its slots are the graph edges between its
\* neighbouring stations, it is registered on exactly the connections and
\* the stations it holds, and its duration is below the cap
SoundRoute(network, r) ==
    /\ None \notin Range(network.routes[r].connections)
    /\ SlotsDerived(network.routes[r])
    /\ \A c \in ConnectionIDs :
          r \in network.connReg[c] <=> c \in Range(network.routes[r].connections)
    /\ \A name \in StationNames :
          r \in network.stationReg[name] <=> name \in Range(network.routes[r].stations)
    /\ duration(network, r) < TMax

\* C28: the routes of the work model start without None slots and below 180;
\* after any number of mutation steps every remaining route is still without
\* None slot, has the graph edges of its neighbouring stations as slots, is
\* registered on exactly its connections and stations, and is below 180.
C28_MutationsKeepRoutesSound ==
    pc \in {"run", "mutateRoute", "done"}
    => \A r \in DOMAIN hc.workModel.routes : SoundRoute(hc.workModel, r)

\* a drop-first-then-extend step changed a route of three stations
C28_Witness ==
    /\ last.op = "mutateFirstStation"
    /\ last.index \in DOMAIN hc.workModel.routes
    /\ last.index \in DOMAIN started.routes
    /\ Len(hc.workModel.routes[last.index].stations) >= 3
    /\ hc.workModel.routes[last.index].stations[1]
          # started.routes[last.index].stations[1]
    /\ SoundRoute(hc.workModel, last.index)

====
